---- MODULE Spec2Model ----
(***************************************************************************)
(* Model of kuznetsov_sirbu/graph.cpp: the append-only Graph with          *)
(* per-vertex depth tracking and automatic edge colouring, and the         *)
(* GraphGenerator that fills a Graph in four phases (grey, green, yellow,  *)
(* red).                                                                   *)
(*                                                                         *)
(* The specifications share the variables:                                 *)
(*   Spec       a client calling the public mutators of Graph (add_vertex, *)
(*              add_edge, set_vertex_depth) in any order, any arguments;   *)
(*   BuildSpec  a client calling only add_vertex and add_edge;             *)
(*   GenSpec    one run of GraphGenerator::generate(), one step per loop   *)
(*              iteration, every outcome of every random trial.            *)
(***************************************************************************)
EXTENDS Integers, Sequences, FiniteSets, TLC

VARIABLES
  graph,                     \* the Graph object (its private fields)
  call,                      \* the last Graph call and its outcome
  params,                    \* GraphGenerator::params_
  pc,                        \* position of the client / of generate()
  current_depth,             \* generate_grey_edges: loop variable
  vertices_with_last_depth,  \* generate_grey_edges: the layer's copy
  vertex_index,              \* position of the range-for over vertices
  trial,                     \* generate_grey_edges: loop variable i
  depths_held,               \* history: every value vertex_depths_ ever held
  direct_depth_calls         \* history: client calls of set_vertex_depth

vars == <<graph, call, params, pc, current_depth, vertices_with_last_depth,
          vertex_index, trial, depths_held, direct_depth_calls>>

genvars == <<params, pc, current_depth, vertices_with_last_depth,
             vertex_index, trial>>

\* ---------------------------------------------------------------- bounds
MaxVertices == 3
MaxEdges == 4
MaxDepth == 3
MaxNewVertices == 1
MaxSetDepthCalls == 1

\* ------------------------------------------------------------- constants
kBaseDepth == 1
kDifferenceRedEdge == 2
kDifferenceYellowEdge == 1
kProbabilityRed == [num |-> 33, den |-> 100]
kProbabilityGreen == [num |-> 1, den |-> 10]

Colors == {"Grey", "Green", "Yellow", "Red"}

\* ------------------------------------------------- std:: container helpers
\* std::unordered_map::operator[] used as an lvalue: insert or overwrite.
MapPut(m, k, v) == [x \in (DOMAIN m) \cup {k} |-> IF x = k THEN v ELSE m[x]]

\* std::unordered_map<K, std::vector<T>>::operator[] used as an rvalue:
\* a missing key is default-constructed (an empty vector).
MapGetVec(m, k) == IF k \in DOMAIN m THEN m[k] ELSE <<>>

EmptyMap == [x \in {} |-> 0]

\* std::find on a vector: index of the first occurrence, 0 when absent.
FindFirst(s, x) ==
  IF \E i \in 1..Len(s) : s[i] = x
    THEN CHOOSE i \in 1..Len(s) : s[i] = x /\ \A j \in 1..(i - 1) : s[j] # x
    ELSE 0

\* std::vector::erase(pos)
EraseAt(s, i) == [j \in 1..(Len(s) - 1) |-> IF j < i THEN s[j] ELSE s[j + 1]]

\* ------------------------------------------------------------------ Graph
\* Graph(): the default member initialisers.
EmptyGraph ==
  [vertex_id_counter |-> 0,
   edge_id_counter   |-> 0,
   vertices          |-> <<>>,
   edges             |-> <<>>,
   adjacency_list    |-> EmptyMap,
   vertex_depths     |-> EmptyMap,
   depth_to_vertices |-> EmptyMap]

add_vertex(g) ==
  LET new_vertex_id == g.vertex_id_counter IN
  [g EXCEPT
     !.vertex_id_counter = @ + 1,
     !.vertices = Append(@, new_vertex_id),
     !.adjacency_list = MapPut(@, new_vertex_id, <<>>),
     !.vertex_depths = MapPut(@, new_vertex_id, kBaseDepth),
     !.depth_to_vertices =
         MapPut(@, kBaseDepth, Append(MapGetVec(@, kBaseDepth), new_vertex_id))]

has_vertex(g, vertex_id) == vertex_id \in DOMAIN g.adjacency_list

connected_edges_ids(g, vertex_id) ==
  IF ~has_vertex(g, vertex_id) THEN <<>> ELSE g.adjacency_list[vertex_id]

vertex_depth(g, vertex_id) == g.vertex_depths[vertex_id]

get_vertices_with_depth(g, d) ==
  IF d \in DOMAIN g.depth_to_vertices THEN g.depth_to_vertices[d] ELSE <<>>

\* Variant of depth: only the buckets that still hold a vertex are counted.
depth_NonEmpty(g) ==
  Cardinality({d \in DOMAIN g.depth_to_vertices : g.depth_to_vertices[d] # <<>>})

depth(g) == Cardinality(DOMAIN g.depth_to_vertices)

\* Variant of set_vertex_depth: the buckets are updated, the depth map is not.
set_vertex_depth_NoMapUpdate(g, vertex_id, d) ==
  LET m1 == MapPut(g.depth_to_vertices, d,
                   Append(MapGetVec(g.depth_to_vertices, d), vertex_id))
      base == MapGetVec(m1, kBaseDepth)
      pos == FindFirst(base, vertex_id)
      m2 == IF pos # 0 THEN MapPut(m1, kBaseDepth, EraseAt(base, pos))
                       ELSE MapPut(m1, kBaseDepth, base)
  IN [g EXCEPT !.depth_to_vertices = m2]

\* Variant of set_vertex_depth: the vertex is not erased from the base bucket.
set_vertex_depth_NoErase(g, vertex_id, d) ==
  LET m1 == MapPut(g.depth_to_vertices, d,
                   Append(MapGetVec(g.depth_to_vertices, d), vertex_id))
      m2 == MapPut(m1, kBaseDepth, MapGetVec(m1, kBaseDepth))
  IN [g EXCEPT !.depth_to_vertices = m2,
               !.vertex_depths = MapPut(@, vertex_id, d)]

set_vertex_depth(g, vertex_id, d) ==
  LET m1 == MapPut(g.depth_to_vertices, d,
                   Append(MapGetVec(g.depth_to_vertices, d), vertex_id))
      base == MapGetVec(m1, kBaseDepth)
      pos == FindFirst(base, vertex_id)
      m2 == IF pos # 0 THEN MapPut(m1, kBaseDepth, EraseAt(base, pos))
                       ELSE MapPut(m1, kBaseDepth, base)
  IN [g EXCEPT !.depth_to_vertices = m2,
               !.vertex_depths = MapPut(@, vertex_id, d)]

\* edges_[edge_id]: the vector is 0-based, the sequence 1-based.
EdgeAt(g, edge_id) == g.edges[edge_id + 1]

is_connected(g, from_vertex_id, to_vertex_id) ==
  \E k \in 1..Len(g.adjacency_list[from_vertex_id]) :
     LET edge == EdgeAt(g, g.adjacency_list[from_vertex_id][k]) IN
       \/ edge.from_vertex_id = to_vertex_id
       \/ edge.to_vertex_id = to_vertex_id

\* Variant of get_edge_color: the Yellow branch forgets the depth test.
get_edge_color_NoYellowDepth(g, from_vertex_id, to_vertex_id) ==
  LET from_vertex_depth == g.vertex_depths[from_vertex_id]
      to_vertex_depth == g.vertex_depths[to_vertex_id]
  IN IF from_vertex_id = to_vertex_id THEN "Green"
     ELSE IF Len(g.adjacency_list[to_vertex_id]) = 0 THEN "Grey"
     ELSE IF ~is_connected(g, from_vertex_id, to_vertex_id) THEN "Yellow"
     ELSE IF to_vertex_depth - from_vertex_depth = kDifferenceRedEdge THEN "Red"
     ELSE "error"

\* Variant of get_edge_color: the Grey test comes before the self-loop test.
get_edge_color_GreyFirst(g, from_vertex_id, to_vertex_id) ==
  LET from_vertex_depth == g.vertex_depths[from_vertex_id]
      to_vertex_depth == g.vertex_depths[to_vertex_id]
  IN IF Len(g.adjacency_list[to_vertex_id]) = 0 THEN "Grey"
     ELSE IF from_vertex_id = to_vertex_id THEN "Green"
     ELSE IF /\ to_vertex_depth - from_vertex_depth = kDifferenceYellowEdge
             /\ ~is_connected(g, from_vertex_id, to_vertex_id) THEN "Yellow"
     ELSE IF to_vertex_depth - from_vertex_depth = kDifferenceRedEdge THEN "Red"
     ELSE "error"

\* "error" stands for throw std::runtime_error("Failed to determine color").
get_edge_color(g, from_vertex_id, to_vertex_id) ==
  LET from_vertex_depth == g.vertex_depths[from_vertex_id]
      to_vertex_depth == g.vertex_depths[to_vertex_id]
  IN IF from_vertex_id = to_vertex_id THEN "Green"
     ELSE IF Len(g.adjacency_list[to_vertex_id]) = 0 THEN "Grey"
     ELSE IF /\ to_vertex_depth - from_vertex_depth = kDifferenceYellowEdge
             /\ ~is_connected(g, from_vertex_id, to_vertex_id) THEN "Yellow"
     ELSE IF to_vertex_depth - from_vertex_depth = kDifferenceRedEdge THEN "Red"
     ELSE "error"

\* Variant of RegisterEdge: the edge is not registered with its to endpoint.
RegisterEdge_FromOnly(adj, from_vertex_id, to_vertex_id, edge_id) ==
  IF from_vertex_id # edge_id
    THEN [adj EXCEPT ![from_vertex_id] = Append(@, edge_id)]
    ELSE adj

\* The adjacency registration of add_edge (lines 70-73): the new edge id is
\* appended to from's list unless from_vertex_id equals the EDGE id, and
\* always to to's list.
RegisterEdge(adj, from_vertex_id, to_vertex_id, edge_id) ==
  LET a1 == IF from_vertex_id # edge_id
              THEN [adj EXCEPT ![from_vertex_id] = Append(@, edge_id)]
              ELSE adj
  IN [a1 EXCEPT ![to_vertex_id] = Append(@, edge_id)]

\* Variant of add_edge: the edge id is taken before the colour is computed,
\* so a call that fails in get_edge_color has consumed an id.
add_edge_IdFirst(g, from_vertex_id, to_vertex_id) ==
  IF ~has_vertex(g, from_vertex_id) \/ ~has_vertex(g, to_vertex_id)
    THEN [ok |-> FALSE, result |-> "invalid_reference", edge_id |-> -1,
          graph |-> g]
    ELSE
      LET edge_id == g.edge_id_counter
          g0 == [g EXCEPT !.edge_id_counter = @ + 1]
          color == get_edge_color(g0, from_vertex_id, to_vertex_id)
      IN
      IF color = "error"
        THEN [ok |-> FALSE, result |-> "logic_error", edge_id |-> -1,
              graph |-> g0]
        ELSE
          LET g1 == IF color = "Grey"
                      THEN set_vertex_depth(g0, to_vertex_id,
                                            vertex_depth(g0, from_vertex_id) + 1)
                      ELSE g0
              g2 == [g1 EXCEPT
                       !.edges = Append(@, [id |-> edge_id,
                                            from_vertex_id |-> from_vertex_id,
                                            to_vertex_id |-> to_vertex_id,
                                            color |-> color]),
                       !.adjacency_list =
                           RegisterEdge(@, from_vertex_id, to_vertex_id, edge_id)]
          IN [ok |-> TRUE, result |-> color, edge_id |-> edge_id, graph |-> g2]

\* Variant of add_edge: a Grey edge gives its target the depth of from,
\* not that depth plus one.
add_edge_SameDepth(g, from_vertex_id, to_vertex_id) ==
  IF ~has_vertex(g, from_vertex_id) \/ ~has_vertex(g, to_vertex_id)
    THEN [ok |-> FALSE, result |-> "invalid_reference", edge_id |-> -1,
          graph |-> g]
    ELSE
      LET color == get_edge_color(g, from_vertex_id, to_vertex_id) IN
      IF color = "error"
        THEN [ok |-> FALSE, result |-> "logic_error", edge_id |-> -1,
              graph |-> g]
        ELSE
          LET g1 == IF color = "Grey"
                      THEN set_vertex_depth(g, to_vertex_id,
                                            vertex_depth(g, from_vertex_id))
                      ELSE g
              edge_id == g1.edge_id_counter
              g2 == [g1 EXCEPT
                       !.edge_id_counter = @ + 1,
                       !.edges = Append(@, [id |-> edge_id,
                                            from_vertex_id |-> from_vertex_id,
                                            to_vertex_id |-> to_vertex_id,
                                            color |-> color]),
                       !.adjacency_list =
                           RegisterEdge(@, from_vertex_id, to_vertex_id, edge_id)]
          IN [ok |-> TRUE, result |-> color, edge_id |-> edge_id, graph |-> g2]

\* add_edge returns the outcome and the graph after the call.  A failed
\* call (the assertion on a missing vertex, or the exception of
\* get_edge_color) happens before the first write, so the graph is the
\* one passed in.  The assertions are compiled in (the source defines no
\* NDEBUG); as long as vertex_depths_ and adjacency_list_ have the same
\* keys, a build without them fails at the same place, in
\* vertex_depths_.at.
add_edge(g, from_vertex_id, to_vertex_id) ==
  IF ~has_vertex(g, from_vertex_id) \/ ~has_vertex(g, to_vertex_id)
    THEN [ok |-> FALSE, result |-> "invalid_reference", edge_id |-> -1,
          graph |-> g]
    ELSE
      LET color == get_edge_color(g, from_vertex_id, to_vertex_id) IN
      IF color = "error"
        THEN [ok |-> FALSE, result |-> "logic_error", edge_id |-> -1,
              graph |-> g]
        ELSE
          LET g1 == IF color = "Grey"
                      THEN set_vertex_depth(g, to_vertex_id,
                                            vertex_depth(g, from_vertex_id) + 1)
                      ELSE g
              edge_id == g1.edge_id_counter
              g2 == [g1 EXCEPT
                       !.edge_id_counter = @ + 1,
                       !.edges = Append(@, [id |-> edge_id,
                                            from_vertex_id |-> from_vertex_id,
                                            to_vertex_id |-> to_vertex_id,
                                            color |-> color]),
                       !.adjacency_list =
                           RegisterEdge(@, from_vertex_id, to_vertex_id, edge_id)]
          IN [ok |-> TRUE, result |-> color, edge_id |-> edge_id, graph |-> g2]

\* The depth values recorded so far, after a step from graph g to graph h:
\* the values of vertex_depths_ in h, and kBaseDepth for every vertex the
\* step created (add_vertex, line 54).
HeldAfter(held, g, h) ==
  held \cup {h.vertex_depths[v] : v \in DOMAIN h.vertex_depths}
       \cup (IF h.vertex_id_counter # g.vertex_id_counter
               THEN {kBaseDepth} ELSE {})

\* ------------------------------------------------------ the client (Spec)
NoCall == [op |-> "none", from |-> -1, to |-> -1, result |-> "none"]

Idle ==
  /\ params = [depth |-> 0, new_vertices_count |-> 0]
  /\ current_depth = 0
  /\ vertices_with_last_depth = <<>>
  /\ vertex_index = 0
  /\ trial = 0

Init ==
  /\ graph = EmptyGraph
  /\ call = NoCall
  /\ pc = "client"
  /\ depths_held = {}
  /\ direct_depth_calls = 0
  /\ Idle

AddVertex ==
  /\ pc = "client"
  /\ graph.vertex_id_counter < MaxVertices
  /\ graph' = add_vertex(graph)
  /\ call' = [op |-> "add_vertex", from |-> -1, to |-> -1,
              result |-> "vertex"]
  /\ UNCHANGED genvars
  /\ depths_held' = HeldAfter(depths_held, graph, graph')
  /\ UNCHANGED direct_depth_calls

\* Arguments range over the existing ids and over ids that add_vertex never
\* returned.
AddEdge ==
  /\ pc = "client"
  /\ graph.edge_id_counter < MaxEdges
  /\ \E from_vertex_id \in 0..MaxVertices, to_vertex_id \in 0..MaxVertices :
       LET r == add_edge(graph, from_vertex_id, to_vertex_id) IN
         /\ graph' = r.graph
         /\ call' = [op |-> "add_edge", from |-> from_vertex_id,
                     to |-> to_vertex_id, result |-> r.result]
  /\ UNCHANGED genvars
  /\ depths_held' = HeldAfter(depths_held, graph, graph')
  /\ UNCHANGED direct_depth_calls

\* A client calls the public set_vertex_depth directly; the function does
\* not check its arguments.  The vertex id ranges over the existing ids and
\* the first id add_vertex has not returned yet, the depth over the layers.
SetVertexDepth ==
  /\ pc = "client"
  /\ direct_depth_calls < MaxSetDepthCalls
  /\ \E vertex_id \in 0..graph.vertex_id_counter, d \in kBaseDepth..MaxDepth :
       /\ graph' = set_vertex_depth(graph, vertex_id, d)
       /\ call' = [op |-> "set_vertex_depth", from |-> -1, to |-> vertex_id,
                   result |-> "void"]
  /\ UNCHANGED genvars
  /\ depths_held' = HeldAfter(depths_held, graph, graph')
  /\ direct_depth_calls' = direct_depth_calls + 1

Next == AddVertex \/ AddEdge \/ SetVertexDepth

Spec == Init /\ [][Next]_vars

\* The client of the graph's construction interface: add_vertex and
\* add_edge only.
BuildNext == AddVertex \/ AddEdge

BuildSpec == Init /\ [][BuildNext]_vars

\* --------------------------------------------------------- GraphGenerator
\* A probability is kept as the exact fraction num/den of the double the
\* code computes: 1.0 - a/d is kept as [num |-> d - a, den |-> d].  den = 0
\* is the division by zero of the code: 0/0 is NaN, a non-zero numerator
\* gives an infinity of the numerator's sign.

\* Variant of probaility_generate_grey_edge whose guard tests the divisor
\* graph_depth - kBaseDepth, so that the probability at target depth 1 is
\* 1.0 and the root gets children.
probaility_generate_grey_edge_OneAtBase(cur_depth, graph_depth) ==
  IF graph_depth - kBaseDepth = 0
    THEN [num |-> 1, den |-> 1]
    ELSE [num |-> (graph_depth - kBaseDepth) - (cur_depth - kBaseDepth),
          den |-> graph_depth - kBaseDepth]

\* probaility_generate_grey_edge (lines 204-212): the guard tests
\* graph_depth == 0, so graph_depth = kBaseDepth divides 0.0 by 0.
probaility_generate_grey_edge(cur_depth, graph_depth) ==
  IF graph_depth = 0
    THEN [num |-> 1, den |-> 1]
    ELSE [num |-> (graph_depth - kBaseDepth) - (cur_depth - kBaseDepth),
          den |-> graph_depth - kBaseDepth]

\* The yellow phase's probability_generate (lines 272-274).
probability_generate_yellow(v_depth, graph_depth) ==
  [num |-> (graph_depth - kBaseDepth) - (v_depth - kBaseDepth),
   den |-> graph_depth - kBaseDepth]

\* The chance is a number of [0, 1]: the precondition of
\* std::bernoulli_distribution(chance).
InUnitInterval(chance) ==
  /\ chance.den # 0
  /\ chance.num * chance.den >= 0
  /\ IF chance.den > 0 THEN chance.num <= chance.den
                       ELSE chance.num >= chance.den

\* chance > 0 (false for NaN).
IsPositive(chance) ==
  IF chance.den = 0 THEN chance.num > 0
  ELSE chance.num * chance.den > 0

\* chance >= 1 (false for NaN).
AtLeastOne(chance) ==
  IF chance.den = 0 THEN chance.num > 0
  ELSE IF chance.den > 0 THEN chance.num >= chance.den
  ELSE chance.num <= chance.den

\* check_probability: the outcomes of std::bernoulli_distribution(chance)
\* and of the draw.  "true"/"false" is the value returned: the draw succeeds
\* when a uniform variate of [0, 1) is less than chance, so never for
\* chance <= 0 or NaN, always for chance >= 1, either way in between.  A
\* chance that is NaN or outside [0, 1] breaks the precondition of the
\* distribution's constructor (undefined behaviour): a build with the
\* library's assertions enabled aborts the process there ("abort"), a
\* build without them goes on to the draw.
check_probability(chance) ==
  LET draw == IF AtLeastOne(chance) THEN {"true"}
              ELSE IF IsPositive(chance) THEN {"true", "false"}
              ELSE {"false"}
  IN IF InUnitInterval(chance) THEN draw ELSE draw \cup {"abort"}

\* The process is aborted inside check_probability: generate() does not
\* return.
Aborted ==
  /\ pc' = "aborted"
  /\ UNCHANGED <<graph, call>>

\* get_random_vertex_id: std::uniform_int_distribution<>(0, size - 1).
get_random_vertex_id(size) == 0..(size - 1)

\* std::vector::at(i), 0-based.
VecAt(s, i) == s[i + 1]

RECURSIVE FilterUnconnected(_, _, _)
FilterUnconnected(g, vertex_from_id, vertex_ids) ==
  IF vertex_ids = <<>> THEN <<>>
  ELSE LET rest == FilterUnconnected(g, vertex_from_id, Tail(vertex_ids)) IN
       IF ~is_connected(g, vertex_from_id, Head(vertex_ids))
         THEN <<Head(vertex_ids)>> \o rest
         ELSE rest

get_unconnected_vertex_ids(g, vertex_from_id, vertex_ids) ==
  FilterUnconnected(g, vertex_from_id, vertex_ids)

\* The bucket the yellow phase draws its candidates from.
yellow_vertex_ids(g, vertex_from_id) ==
  get_vertices_with_depth(g, vertex_depth(g, vertex_from_id) + kDifferenceYellowEdge)

\* Variant of red_vertex_ids: the red phase looks one layer deeper, not two.
red_vertex_ids_Adjacent(g, vertex_from_id) ==
  get_vertices_with_depth(g, vertex_depth(g, vertex_from_id) + kDifferenceYellowEdge)

\* The bucket the red phase draws its target from.
red_vertex_ids(g, vertex_from_id) ==
  get_vertices_with_depth(g, vertex_depth(g, vertex_from_id) + kDifferenceRedEdge)

\* GraphGenerator(Params&&): depth and new_vertices_count are the validated
\* non-negative inputs of main().
GenInit ==
  /\ graph = EmptyGraph
  /\ call = NoCall
  /\ pc = "start"
  /\ params \in [depth : 0..MaxDepth, new_vertices_count : 0..MaxNewVertices]
  /\ current_depth = 0
  /\ vertices_with_last_depth = <<>>
  /\ vertex_index = 0
  /\ trial = 0
  /\ depths_held = {}
  /\ direct_depth_calls = 0

\* Variant of NextPhase: generate_red_edges is called before
\* generate_yellow_edges.
NextPhase_RedFirst(phase) ==
  CASE phase = "grey" -> "green"
    [] phase = "green" -> "red"
    [] phase = "red" -> "yellow"
    [] phase = "yellow" -> "done"

\* generate(): the order in which the phases are called (lines 189-192).
NextPhase(phase) ==
  CASE phase = "grey" -> "green"
    [] phase = "green" -> "yellow"
    [] phase = "yellow" -> "red"
    [] phase = "red" -> "done"

\* The outcome of an add_edge issued by the generator: the exception (or
\* the failed assertion) leaves generate().
AfterAddEdge(r, from_vertex_id, to_vertex_id, next_pc) ==
  /\ graph' = r.graph
  /\ call' = [op |-> "add_edge", from |-> from_vertex_id,
              to |-> to_vertex_id, result |-> r.result]
  /\ pc' = IF r.ok THEN next_pc ELSE "failed"

\* Variant of GenerateBegin: the root is created for depth >= 0.
GenerateBegin_AlwaysRoot ==
  /\ pc = "start"
  /\ IF params.depth >= 0
       THEN /\ graph' = add_vertex(EmptyGraph)
            /\ call' = [op |-> "add_vertex", from |-> -1, to |-> -1,
                        result |-> "vertex"]
            /\ pc' = "grey"
            /\ current_depth' = kBaseDepth
       ELSE /\ graph' = EmptyGraph
            /\ pc' = "done"
            /\ UNCHANGED <<call, current_depth>>
  /\ UNCHANGED <<params, vertices_with_last_depth, vertex_index, trial>>
  /\ depths_held' = HeldAfter(depths_held, graph, graph')
  /\ UNCHANGED direct_depth_calls

\* generate(): Graph(), and for depth > 0 the root vertex.
GenerateBegin ==
  /\ pc = "start"
  /\ IF params.depth > 0
       THEN /\ graph' = add_vertex(EmptyGraph)
            /\ call' = [op |-> "add_vertex", from |-> -1, to |-> -1,
                        result |-> "vertex"]
            /\ pc' = "grey"
            /\ current_depth' = kBaseDepth
       ELSE /\ graph' = EmptyGraph
            /\ pc' = "done"
            /\ UNCHANGED <<call, current_depth>>
  /\ UNCHANGED <<params, vertices_with_last_depth, vertex_index, trial>>
  /\ depths_held' = HeldAfter(depths_held, graph, graph')
  /\ UNCHANGED direct_depth_calls

\* generate_grey_edges: the head of the outer for (condition, copy of the
\* layer, the break).
GreyLayer ==
  /\ pc = "grey"
  /\ IF current_depth <= params.depth /\ depth(graph) = current_depth
       THEN /\ vertices_with_last_depth' =
                   get_vertices_with_depth(graph, current_depth)
            /\ vertex_index' = 1
            /\ trial' = 0
            /\ pc' = "grey_vertex"
       ELSE /\ vertices_with_last_depth' = <<>>
            /\ vertex_index' = 1
            /\ trial' = 0
            /\ pc' = NextPhase("grey")
  /\ UNCHANGED <<graph, call, params, current_depth>>
  /\ depths_held' = HeldAfter(depths_held, graph, graph')
  /\ UNCHANGED direct_depth_calls

\* try_generate_grey_edge for slot i of the current vertex of the layer.
GreyTrial ==
  /\ pc = "grey_vertex"
  /\ vertex_index <= Len(vertices_with_last_depth)
  /\ trial < params.new_vertices_count
  /\ LET vertex_id == vertices_with_last_depth[vertex_index]
         probability == probaility_generate_grey_edge(current_depth, params.depth)
     IN \E outcome \in check_probability(probability) :
          IF outcome = "abort" THEN Aborted
          ELSE IF outcome = "true"
            THEN LET g1 == add_vertex(graph)
                     next_vertex_id == graph.vertex_id_counter
                 IN AfterAddEdge(add_edge(g1, vertex_id, next_vertex_id),
                                 vertex_id, next_vertex_id, "grey_vertex")
            ELSE UNCHANGED <<graph, call, pc>>
  /\ trial' = trial + 1
  /\ UNCHANGED <<params, current_depth, vertices_with_last_depth, vertex_index>>
  /\ depths_held' = HeldAfter(depths_held, graph, graph')
  /\ UNCHANGED direct_depth_calls

\* The inner for is exhausted: next vertex of the layer.
GreyNextVertex ==
  /\ pc = "grey_vertex"
  /\ vertex_index <= Len(vertices_with_last_depth)
  /\ trial >= params.new_vertices_count
  /\ vertex_index' = vertex_index + 1
  /\ trial' = 0
  /\ UNCHANGED <<graph, call, params, pc, current_depth, vertices_with_last_depth>>
  /\ depths_held' = HeldAfter(depths_held, graph, graph')
  /\ UNCHANGED direct_depth_calls

\* The layer is exhausted: current_depth++.
GreyLayerEnd ==
  /\ pc = "grey_vertex"
  /\ vertex_index > Len(vertices_with_last_depth)
  /\ current_depth' = current_depth + 1
  /\ pc' = "grey"
  /\ UNCHANGED <<graph, call, params, vertices_with_last_depth, vertex_index, trial>>
  /\ depths_held' = HeldAfter(depths_held, graph, graph')
  /\ UNCHANGED direct_depth_calls

\* generate_green_edges: one vertex of the range-for.
GreenTrial ==
  /\ pc = "green"
  /\ vertex_index <= Len(graph.vertices)
  /\ LET vertex_id == graph.vertices[vertex_index] IN
       \E outcome \in check_probability(kProbabilityGreen) :
          IF outcome = "abort" THEN Aborted
          ELSE IF outcome = "true"
            THEN AfterAddEdge(add_edge(graph, vertex_id, vertex_id),
                              vertex_id, vertex_id, "green")
            ELSE UNCHANGED <<graph, call, pc>>
  /\ vertex_index' = vertex_index + 1
  /\ UNCHANGED <<params, current_depth, vertices_with_last_depth, trial>>
  /\ depths_held' = HeldAfter(depths_held, graph, graph')
  /\ UNCHANGED direct_depth_calls

GreenEnd ==
  /\ pc = "green"
  /\ vertex_index > Len(graph.vertices)
  /\ pc' = NextPhase("green")
  /\ vertex_index' = 1
  /\ UNCHANGED <<graph, call, params, current_depth, vertices_with_last_depth, trial>>
  /\ depths_held' = HeldAfter(depths_held, graph, graph')
  /\ UNCHANGED direct_depth_calls

\* generate_yellow_edges: one vertex of the range-for.
YellowTrial ==
  /\ pc = "yellow"
  /\ vertex_index <= Len(graph.vertices)
  /\ LET vertex_from_id == graph.vertices[vertex_index]
         probability_generate ==
           probability_generate_yellow(vertex_depth(graph, vertex_from_id),
                                       depth(graph))
         not_connected_vertex_ids ==
           get_unconnected_vertex_ids(graph, vertex_from_id,
                                      yellow_vertex_ids(graph, vertex_from_id))
     IN \E outcome \in check_probability(probability_generate) :
          IF outcome = "abort" THEN Aborted
          ELSE IF outcome = "false" /\ not_connected_vertex_ids # <<>>
            THEN \E k \in get_random_vertex_id(Len(not_connected_vertex_ids)) :
                   LET vertex_to_id == VecAt(not_connected_vertex_ids, k) IN
                     AfterAddEdge(add_edge(graph, vertex_from_id, vertex_to_id),
                                  vertex_from_id, vertex_to_id, "yellow")
            ELSE UNCHANGED <<graph, call, pc>>
  /\ vertex_index' = vertex_index + 1
  /\ UNCHANGED <<params, current_depth, vertices_with_last_depth, trial>>
  /\ depths_held' = HeldAfter(depths_held, graph, graph')
  /\ UNCHANGED direct_depth_calls

YellowEnd ==
  /\ pc = "yellow"
  /\ vertex_index > Len(graph.vertices)
  /\ pc' = NextPhase("yellow")
  /\ vertex_index' = 1
  /\ UNCHANGED <<graph, call, params, current_depth, vertices_with_last_depth, trial>>
  /\ depths_held' = HeldAfter(depths_held, graph, graph')
  /\ UNCHANGED direct_depth_calls

\* generate_red_edges: one vertex of the range-for.
RedTrial ==
  /\ pc = "red"
  /\ vertex_index <= Len(graph.vertices)
  /\ LET vertex_from_id == graph.vertices[vertex_index]
         vertex_ids == red_vertex_ids(graph, vertex_from_id)
     IN \E outcome \in check_probability(kProbabilityRed) :
          IF outcome = "abort" THEN Aborted
          ELSE IF outcome = "true" /\ vertex_ids # <<>>
            THEN \E k \in get_random_vertex_id(Len(vertex_ids)) :
                   LET vertex_to_id == VecAt(vertex_ids, k) IN
                     AfterAddEdge(add_edge(graph, vertex_from_id, vertex_to_id),
                                  vertex_from_id, vertex_to_id, "red")
            ELSE UNCHANGED <<graph, call, pc>>
  /\ vertex_index' = vertex_index + 1
  /\ UNCHANGED <<params, current_depth, vertices_with_last_depth, trial>>
  /\ depths_held' = HeldAfter(depths_held, graph, graph')
  /\ UNCHANGED direct_depth_calls

\* generate() returns the graph.
RedEnd ==
  /\ pc = "red"
  /\ vertex_index > Len(graph.vertices)
  /\ pc' = NextPhase("red")
  /\ UNCHANGED <<graph, call, params, current_depth, vertices_with_last_depth,
                 vertex_index, trial>>
  /\ depths_held' = HeldAfter(depths_held, graph, graph')
  /\ UNCHANGED direct_depth_calls

GenNext ==
  \/ GenerateBegin
  \/ GreyLayer
  \/ GreyTrial
  \/ GreyNextVertex
  \/ GreyLayerEnd
  \/ GreenTrial
  \/ GreenEnd
  \/ YellowTrial
  \/ YellowEnd
  \/ RedTrial
  \/ RedEnd

\* generate() is sequential code: whenever a step is possible, one is taken.
GenFairSpec == GenInit /\ [][GenNext]_vars /\ WF_vars(GenNext)

GenSpec == GenInit /\ [][GenNext]_vars

\* ------------------------------------------------- vocabulary of the claims
VertexIds(g) == DOMAIN g.vertex_depths

EdgeIndexes(g) == 1..Len(g.edges)

Touches(edge, v) == edge.from_vertex_id = v \/ edge.to_vertex_id = v

\* The edge has a as one endpoint and b as the other, in either direction.
Joins(edge, a, b) ==
  \/ edge.from_vertex_id = a /\ edge.to_vertex_id = b
  \/ edge.from_vertex_id = b /\ edge.to_vertex_id = a

\* The ids of the edges of edges() that touch v, in insertion order.
RECURSIVE IncidentEdgeIds(_, _)
IncidentEdgeIds(edges, v) ==
  IF edges = <<>> THEN <<>>
  ELSE IF Touches(Head(edges), v)
    THEN <<Head(edges).id>> \o IncidentEdgeIds(Tail(edges), v)
    ELSE IncidentEdgeIds(Tail(edges), v)

GreyEdgesInto(g, v) ==
  {i \in EdgeIndexes(g) : g.edges[i].color = "Grey" /\ g.edges[i].to_vertex_id = v}

HasColor(g, color) == \E i \in EdgeIndexes(g) : g.edges[i].color = color

\* The classification rule of the specification, read off edges() and the
\* depths instead of the adjacency index.
ClassifiedColor(g, from_vertex_id, to_vertex_id) ==
  LET diff == g.vertex_depths[to_vertex_id] - g.vertex_depths[from_vertex_id] IN
  IF from_vertex_id = to_vertex_id THEN "Green"
  ELSE IF \A i \in EdgeIndexes(g) : ~Touches(g.edges[i], to_vertex_id) THEN "Grey"
  ELSE IF /\ diff = 1
          /\ \A i \in EdgeIndexes(g) :
               ~Joins(g.edges[i], from_vertex_id, to_vertex_id) THEN "Yellow"
  ELSE IF diff = 2 THEN "Red"
  ELSE "logic_error"

\* The step is a call add_edge(from, to) on two existing vertices.
IsAddEdgeStep ==
  /\ call'.op = "add_edge"
  /\ call'.from \in VertexIds(graph)
  /\ call'.to \in VertexIds(graph)

\* ------------------------------------------------------------------ claims

\* C1: after any sequence of add_vertex / add_edge calls, connected_edges(v)
\* holds exactly the ids of the edges whose from or to endpoint is v, each
\* once (a self-loop once), in the order the edges were added.
C1_AdjacencyIsIncidence ==
  \A v \in VertexIds(graph) :
     connected_edges_ids(graph, v) = IncidentEdgeIds(graph.edges, v)

\* C2: the colour add_edge(from, to) assigns on existing vertices is the
\* ordered classification evaluated on the actual edge set and depths at
\* call time (Green, Grey, Yellow, Red, else the logic error).
C2_ColorIsClassification ==
  [][IsAddEdgeStep =>
       call'.result = ClassifiedColor(graph, call'.from, call'.to)]_vars

\* C3: for two existing vertices a and b, is_connected(a, b) is true iff
\* some edge of edges() has a as one endpoint and b as the other; hence
\* is_connected(a, b) = is_connected(b, a).
C3_IsConnectedIsJoined ==
  \A a \in VertexIds(graph), b \in VertexIds(graph) :
     a # b =>
       /\ is_connected(graph, a, b) <=>
            \E i \in EdgeIndexes(graph) : Joins(graph.edges[i], a, b)
       /\ is_connected(graph, a, b) <=> is_connected(graph, b, a)

\* C4: in every state, every Grey edge e satisfies
\* vertex_depth(e.to) = vertex_depth(e.from) + 1.
C4_GreyEdgeDepth ==
  \A i \in EdgeIndexes(graph) :
     graph.edges[i].color = "Grey" =>
       vertex_depth(graph, graph.edges[i].to_vertex_id) =
         vertex_depth(graph, graph.edges[i].from_vertex_id) + 1

\* C5: a vertex's depth starts at 1, changes only in an add_edge call that
\* colours an edge into that vertex Grey (becoming depth(from) + 1 of that
\* call, never lower than before), and changes at most once: every change
\* appends a Grey edge into the vertex, and a vertex is the to endpoint of
\* at most one Grey edge (of exactly one iff it left depth 1).
C5_DepthStep ==
  /\ \A v \in VertexIds(graph') \ VertexIds(graph) :
        vertex_depth(graph', v) = kBaseDepth
  /\ \A v \in VertexIds(graph) :
        vertex_depth(graph', v) # vertex_depth(graph, v) =>
          /\ IsAddEdgeStep
          /\ call'.to = v
          /\ call'.result = "Grey"
          /\ vertex_depth(graph', v) = vertex_depth(graph, call'.from) + 1
          /\ vertex_depth(graph', v) > vertex_depth(graph, v)
          /\ Len(graph'.edges) = Len(graph.edges) + 1
          /\ Len(graph'.edges) \in GreyEdgesInto(graph', v)

C5_OneGreyEdgeInto ==
  \A v \in VertexIds(graph) :
     /\ Cardinality(GreyEdgesInto(graph, v)) <= 1
     /\ vertex_depth(graph, v) # kBaseDepth <=>
          Cardinality(GreyEdgesInto(graph, v)) = 1

C5_DepthChangesOnce == [][C5_DepthStep]_vars /\ []C5_OneGreyEdgeInto

\* C5 witness: a vertex that was promoted by a Grey edge and later received
\* a further, non-Grey edge.
C5_Witness ==
  \E v \in VertexIds(graph) :
     /\ vertex_depth(graph, v) > kBaseDepth
     /\ \E i \in EdgeIndexes(graph) :
          /\ graph.edges[i].to_vertex_id = v
          /\ graph.edges[i].color \in {"Yellow", "Red"}

\* C6: in every graph returned by generate(), no Yellow edge (v, w) has an
\* edge with a smaller id joining the same two vertices.
C6_YellowJoinsUnconnected ==
  pc = "done" =>
    \A i \in EdgeIndexes(graph) :
       graph.edges[i].color = "Yellow" =>
         \A j \in 1..(i - 1) :
            ~Joins(graph.edges[j], graph.edges[i].from_vertex_id,
                   graph.edges[i].to_vertex_id)

\* C7: when add_edge(a, b) has just produced a Yellow edge, the immediately
\* repeated add_edge(a, b) does not produce a Yellow edge.
C7_NoSecondYellow ==
  [][(/\ call.op = "add_edge"
      /\ call.result = "Yellow"
      /\ call'.op = "add_edge"
      /\ call'.from = call.from
      /\ call'.to = call.to) => call'.result # "Yellow"]_vars

\* C8: in every graph returned by generate(), with the final depths, every
\* Red edge spans exactly 2 layers and every Yellow edge exactly 1.
C8_RedYellowDepth ==
  pc = "done" =>
    \A i \in EdgeIndexes(graph) :
       LET edge == graph.edges[i]
           diff == vertex_depth(graph, edge.to_vertex_id) -
                   vertex_depth(graph, edge.from_vertex_id)
       IN /\ edge.color = "Red" => diff = 2
          /\ edge.color = "Yellow" => diff = 1

\* C8 witness: a returned graph that has a Red and a Yellow edge.
C8_Witness ==
  pc = "done" /\ HasColor(graph, "Red") /\ HasColor(graph, "Yellow")

\* C9: add_edge(v, v) on an existing vertex always succeeds, appends a Green
\* edge v -> v and changes no vertex's depth; every Green edge of edges()
\* has from = to.
C9_SelfLoopStep ==
  (IsAddEdgeStep /\ call'.from = call'.to) =>
    /\ call'.result = "Green"
    /\ graph'.vertex_depths = graph.vertex_depths
    /\ Len(graph'.edges) = Len(graph.edges) + 1
    /\ graph'.edges[Len(graph'.edges)] =
         [id |-> graph.edge_id_counter, from_vertex_id |-> call'.from,
          to_vertex_id |-> call'.from, color |-> "Green"]

C9_GreenIsSelfLoop ==
  \A i \in EdgeIndexes(graph) :
     graph.edges[i].color = "Green" <=>
       graph.edges[i].from_vertex_id = graph.edges[i].to_vertex_id

C9_SelfLoopGreen == [][C9_SelfLoopStep]_vars /\ []C9_GreenIsSelfLoop

\* C9 witness: a self-loop was just added on a vertex that a Grey edge had
\* promoted, and on a vertex that had no edge yet.
C9_Witness ==
  /\ call.op = "add_edge"
  /\ call.from = call.to
  /\ call.result = "Green"
  /\ vertex_depth(graph, call.from) > kBaseDepth
  /\ \E i \in EdgeIndexes(graph) :
       /\ graph.edges[i].color = "Green"
       /\ vertex_depth(graph, graph.edges[i].from_vertex_id) = kBaseDepth

\* C10: no add_edge call issued by generate() fails, in any phase.
C10_GenerateNeverFails ==
  /\ pc # "failed"
  /\ call.result \notin {"logic_error", "invalid_reference"}

\* C10 witness: generate() returned a graph on which every phase added an
\* edge.
C10_Witness ==
  pc = "done" /\ \A color \in Colors : HasColor(graph, color)

\* The depth values the vertices hold now.
DepthValues(g) == {g.vertex_depths[v] : v \in VertexIds(g)}

\* C11: for target_depth >= 1 (target_depth = 1 included) the grey phase
\* never creates a vertex deeper than target_depth: depth() <= target_depth
\* and vertex_depth(v) <= target_depth for every vertex, in every state of
\* generate() and so in the returned graph.  At the last layer the grey
\* probability is 0 (target_depth >= 2) or NaN (target_depth = 1), and in
\* both cases no trial succeeds (a NaN trial returns false or aborts).
C11_DepthWithinTarget ==
  params.depth >= 1 =>
    /\ depth(graph) <= params.depth
    /\ \A v \in VertexIds(graph) : vertex_depth(graph, v) <= params.depth

\* generate() has returned a graph that reaches the target depth exactly:
\* the layers above the last one produced vertices and the last one, whose
\* trials all ran, produced none.
C11_Witness ==
  /\ pc = "done"
  /\ params.depth = 3
  /\ params.new_vertices_count >= 1
  /\ depth(graph) = params.depth
  /\ \E v \in VertexIds(graph) : vertex_depth(graph, v) = params.depth

\* C12: in every graph returned by generate() with target_depth >= 1, every
\* vertex has depth >= 1 and the depth values held by the vertices are
\* exactly 1, ..., depth().
C12_DepthsContiguous ==
  (pc = "done" /\ params.depth >= 1) =>
    /\ \A v \in VertexIds(graph) : vertex_depth(graph, v) >= 1
    /\ DepthValues(graph) = 1..depth(graph)

\* C12 witness: a returned graph with three layers.
C12_Witness ==
  pc = "done" /\ params.depth >= 1 /\ depth(graph) = 3
    /\ DepthValues(graph) = {1, 2, 3}

\* C13: depth() equals the number of distinct depth values any vertex has
\* ever held (0 for a graph without vertices), the base layer included when
\* no vertex is left in it; depth() never decreases.
C13_DepthStep == depth(graph') >= depth(graph)

C13_DepthIsHeldCount == depth(graph) = Cardinality(depths_held)

C13_DepthCountsHeld == []C13_DepthIsHeldCount /\ [][C13_DepthStep]_vars

\* C13 witness: every vertex has been moved out of the base layer.
C13_Witness ==
  /\ VertexIds(graph) # {}
  /\ kBaseDepth \notin DepthValues(graph)
  /\ get_vertices_with_depth(graph, kBaseDepth) = <<>>
  /\ depth(graph) = Cardinality(DepthValues(graph)) + 1

Failures == {"invalid_reference", "logic_error"}

\* The ids add_vertex has returned so far.
ReturnedIds(g) == 0..(g.vertex_id_counter - 1)

\* C14: add_edge with a from or to id that add_vertex never returned always
\* fails (no colour is assigned), and a failed add_edge, whatever the
\* reason, leaves the whole graph unchanged: edges, edge id counter,
\* adjacency lists, vertex depths and depth buckets.
C14_FailStep ==
  call'.op = "add_edge" =>
    /\ (call'.from \notin ReturnedIds(graph) \/ call'.to \notin ReturnedIds(graph))
          => call'.result = "invalid_reference"
    /\ call'.result \in Failures => graph' = graph
    /\ call'.result \notin Failures =>
          /\ call'.result \in Colors
          /\ Len(graph'.edges) = Len(graph.edges) + 1

C14_FailedAddEdgeIsNoOp == [][C14_FailStep]_vars

\* C14 witness: on a graph that already has an edge, an add_edge with one
\* existing endpoint and one that add_vertex never returned (but that a
\* set_vertex_depth call gave a depth) has just failed.
C14_Witness ==
  /\ call.op = "add_edge"
  /\ call.result = "invalid_reference"
  /\ call.from \in ReturnedIds(graph)
  /\ call.to \notin ReturnedIds(graph)
  /\ call.to \in DOMAIN graph.vertex_depths
  /\ Len(graph.edges) > 0

\* C15: generate() with target_depth = 0 returns the empty graph for every
\* new_vertices_per_step (no vertex, no edge, depth() = 0); no phase runs
\* and no root is created.
C15_ZeroDepthIsEmpty ==
  params.depth = 0 =>
    /\ pc \in {"start", "done"}
    /\ graph.vertices = <<>>
    /\ graph.edges = <<>>
    /\ depth(graph) = 0

\* C15 witness: generate() returned for target_depth = 0 and a positive
\* new_vertices_per_step.
C15_Witness ==
  pc = "done" /\ params.depth = 0 /\ params.new_vertices_count > 0

ColorRank(color) ==
  CASE color = "Grey" -> 1 [] color = "Green" -> 2
    [] color = "Yellow" -> 3 [] color = "Red" -> 4

PhaseRank(p) ==
  CASE p = "start" -> 0 [] p \in {"grey", "grey_vertex"} -> 1
    [] p = "green" -> 2 [] p = "yellow" -> 3 [] p = "red" -> 4
    [] p = "done" -> 5 [] OTHER -> 6

\* C16: for target_depth >= 1 the phases run in the order grey, green,
\* yellow, red, each finishing before the next starts: generate() never goes
\* back to an earlier phase, every edge is added by the phase of its colour,
\* no vertex is created and no depth changes once the grey phase is over,
\* and in the returned edges() the colours come in the order Grey, Green,
\* Yellow, Red.
C16_PhaseStep ==
  /\ PhaseRank(pc') >= PhaseRank(pc)
  /\ Len(graph'.edges) > Len(graph.edges) =>
       /\ Len(graph'.edges) = Len(graph.edges) + 1
       /\ ColorRank(graph'.edges[Len(graph'.edges)].color) = PhaseRank(pc)
  /\ PhaseRank(pc) >= 2 =>
       /\ graph'.vertices = graph.vertices
       /\ graph'.vertex_depths = graph.vertex_depths

C16_EdgesInPhaseOrder ==
  (pc = "done" /\ params.depth >= 1) =>
    \A i \in EdgeIndexes(graph), j \in EdgeIndexes(graph) :
       i < j => ColorRank(graph.edges[i].color) <= ColorRank(graph.edges[j].color)

C16_PhasesInOrder == [][C16_PhaseStep]_vars /\ []C16_EdgesInPhaseOrder

\* C16 witness: a returned graph with edges of all four colours, two of
\* them Grey.
C16_Witness ==
  /\ pc = "done"
  /\ \A color \in Colors : HasColor(graph, color)
  /\ Cardinality({i \in EdgeIndexes(graph) : graph.edges[i].color = "Grey"}) = 2

\* C17: generate() terminates for every configuration and every outcome of
\* the random trials: a graph is eventually returned; on the way the grey
\* phase only moves to deeper layers, one layer per pass of the outer loop,
\* and every pass of a vertex loop moves one vertex on.
\* The run that draws on a NaN chance (target depth 1, or a graph of depth 1
\* in the yellow phase) and is aborted there never returns a graph.
C17_ProgressStep ==
  /\ current_depth' >= current_depth
  /\ (pc = "grey_vertex" /\ pc' = "grey") => current_depth' = current_depth + 1
  /\ (pc = "grey" /\ pc' = "grey_vertex") => current_depth <= params.depth
  /\ (pc' = pc /\ pc \in {"green", "yellow", "red"}) =>
        vertex_index' = vertex_index + 1

C17_Terminates == <>(pc = "done") /\ [][C17_ProgressStep]_vars

\* How often x occurs in the vector s.
Occurrences(s, x) == Cardinality({i \in 1..Len(s) : s[i] = x})

\* C18: the depth map and the inverse index agree: every vertex v occurs
\* exactly once in vertices_with_depth(vertex_depth(v)) and in no other
\* depth bucket.
C18_BucketsMatchDepths ==
  \A v \in VertexIds(graph) :
     /\ Occurrences(get_vertices_with_depth(graph, vertex_depth(graph, v)), v) = 1
     /\ \A d \in DOMAIN graph.depth_to_vertices :
          d # vertex_depth(graph, v) =>
            Occurrences(graph.depth_to_vertices[d], v) = 0

\* C18 witness: a vertex was promoted beyond depth 2 while another vertex
\* is still in the base bucket.
C18_Witness ==
  /\ \E v \in VertexIds(graph) : vertex_depth(graph, v) > kBaseDepth + 1
  /\ get_vertices_with_depth(graph, kBaseDepth) # <<>>

\* The from endpoint of the Grey edge into v (v has exactly one).
GreyParent(g, v) ==
  g.edges[CHOOSE i \in GreyEdgesInto(g, v) : TRUE].from_vertex_id

\* Number of Grey edges on the path from a vertex without incoming Grey
\* edge down to v; fuel bounds the walk by the number of vertices.
RECURSIVE GreyPathLength(_, _, _)
GreyPathLength(g, v, fuel) ==
  IF GreyEdgesInto(g, v) = {} THEN 0
  ELSE IF fuel = 0 THEN -1
  ELSE LET up == GreyPathLength(g, GreyParent(g, v), fuel - 1) IN
       IF up < 0 THEN -1 ELSE up + 1

\* The vertex the Grey path into v starts at.
RECURSIVE GreyRoot(_, _, _)
GreyRoot(g, v, fuel) ==
  IF GreyEdgesInto(g, v) = {} \/ fuel = 0 THEN v
  ELSE GreyRoot(g, GreyParent(g, v), fuel - 1)

\* C19: in every graph returned by generate() with target_depth >= 1 the
\* Grey edges form a tree rooted at vertex 0: vertex 0 has depth 1 and no
\* incoming Grey edge, every other vertex has exactly one incoming Grey
\* edge (so there are |vertices| - 1 Grey edges), its Grey path starts at
\* vertex 0, and its depth is 1 plus the number of Grey edges on that path.
C19_GreyTree ==
  (pc = "done" /\ params.depth >= 1) =>
    LET n == Len(graph.vertices) IN
    /\ 0 \in VertexIds(graph)
    /\ vertex_depth(graph, 0) = kBaseDepth
    /\ GreyEdgesInto(graph, 0) = {}
    /\ Cardinality({i \in EdgeIndexes(graph) : graph.edges[i].color = "Grey"})
         = n - 1
    /\ \A v \in VertexIds(graph) \ {0} :
         /\ Cardinality(GreyEdgesInto(graph, v)) = 1
         /\ GreyRoot(graph, v, n) = 0
         /\ vertex_depth(graph, v) = 1 + GreyPathLength(graph, v, n)

\* C19 witness: a returned graph whose Grey tree has a path of two edges,
\* crossed by a Yellow edge.
C19_Witness ==
  /\ pc = "done"
  /\ \E v \in VertexIds(graph) : GreyPathLength(graph, v, Len(graph.vertices)) = 2
  /\ HasColor(graph, "Yellow")

====
